---- MODULE Spec2Model ----
(***************************************************************************)
(* Model of the Gymnasium wrapper GymEnv                                   *)
(* (candle-examples/examples/reinforcement-learning/gym_env.rs).           *)
(*                                                                         *)
(* The Python environment is the external collaborator: its descriptor     *)
(* (is the name registered, action_space.n / action_space.shape,           *)
(* observation_space.shape) is drawn at construction, and every reset /    *)
(* step call returns a nondeterministic Python tuple (or raises).  A       *)
(* conforming environment returns what its declared spaces promise; a      *)
(* non-conforming one returns any small tuple.                             *)
(***************************************************************************)
EXTENDS Integers, Sequences, FiniteSets, TLC

\* ---- bounds ----
MaxDim == 2
MaxObsLen == 2

Seeds == {0, 42}
Actions == 0..1

\* ---- Python values seen by the extraction code ----
\* len is the length along axis 0, cols the length along axis 1 (0 if none)
Item(k, l, c, n, b) == [k |-> k, len |-> l, cols |-> c, num |-> n, b |-> b]
SeqItem(l) == Item("seq", l, 0, 0, FALSE)      \* flat Python list of floats
ArrItem(l, n) == Item("arr", l, 0, n, FALSE)   \* 1-D numpy array of floats (first element n)
Arr2Item(r, c, n) == Item("arr2", r, c, n, FALSE) \* 2-D numpy array r x c (first element n)
NumItem(n) == Item("num", 0, 0, n, FALSE)      \* Python float / int
BoolItem(b) == Item("bool", 0, 0, 0, b)        \* Python bool
DictItem == Item("dict", 0, 0, 0, FALSE)       \* info dict / None

RECURSIVE Product(_)
Product(s) == IF s = <<>> THEN 1 ELSE Head(s) * Product(Tail(s))

\* Number of elements of a numpy array.
ArrSize(it) == IF it.k = "arr" THEN it.len ELSE it.len * it.cols
\* obj.extract::<f64>()  (PyFloat_AsDouble accepts float, int, bool and, through
\* ndarray.__float__, a numpy array of any rank holding exactly one element)
ExtractF64(it) == it.k \in {"num", "bool"} \/ (it.k \in {"arr", "arr2"} /\ ArrSize(it) = 1)
F64Val(it) == IF it.k \in {"num", "arr", "arr2"} THEN it.num ELSE IF it.b THEN 1 ELSE 0
\* obj.extract::<Vec<f32>>()  iterates axis 0 and extracts each element as f32:
\* a list or 1-D array of floats, or a 2-D array whose rows hold one element
\* each (the row converts through ndarray.__float__) or that has no rows at
\* all (nothing to convert); the Vec has len elements.
ExtractFloats(it) == it.k \in {"seq", "arr"} \/ (it.k = "arr2" /\ (it.cols = 1 \/ it.len = 0))
\* obj.extract::<bool>()  (only a Python bool)
ExtractBool(it) == it.k = "bool"

\* ---- environment descriptors (what gymnasium.make(name) yields) ----
ObsDims == 1..MaxDim
ObsShapes == {<<>>} \cup {<<x>> : x \in ObsDims} \cup {<<x, y>> : x \in ObsDims, y \in {1, 2}}
ActShapes == {<<>>} \cup {<<x>> : x \in 1..MaxDim}
\* aNone / oNone: action_space.shape / observation_space.shape is None (Tuple or
\* Dict spaces), which does not extract as Vec<usize>.
Unregistered == [reg |-> FALSE, nKind |-> "missing", nVal |-> 0,
                 ashape |-> <<>>, aNone |-> FALSE, oshape |-> <<>>, oNone |-> FALSE,
                 conform |-> TRUE]
Registered ==
  {[reg |-> TRUE, nKind |-> nk, nVal |-> IF nk = "int" THEN nv ELSE 0,
    ashape |-> as, aNone |-> FALSE, oshape |-> os, oNone |-> FALSE, conform |-> c] :
      nk \in {"missing", "bad", "int"}, nv \in 1..MaxDim,
      as \in ActShapes, os \in ObsShapes, c \in BOOLEAN}
NoneShapes ==
  {[reg |-> TRUE, nKind |-> "missing", nVal |-> 0, ashape |-> <<>>, aNone |-> TRUE,
    oshape |-> <<1>>, oNone |-> FALSE, conform |-> TRUE],
   [reg |-> TRUE, nKind |-> "int", nVal |-> 1, ashape |-> <<>>, aNone |-> FALSE,
    oshape |-> <<>>, oNone |-> TRUE, conform |-> TRUE]}
Descriptors == {Unregistered} \cup Registered \cup NoneShapes

\* The observation a conforming environment returns for its declared shape.
ConformObs(os) ==
  IF Len(os) = 0 THEN NumItem(0)
  ELSE IF Len(os) = 1 THEN ArrItem(os[1], 0)
  ELSE Arr2Item(os[1], os[2], 0)

\* A non-conforming environment returns a well-formed tuple that is cut short
\* or has one element replaced by an arbitrary value.
Alphabet ==
  {SeqItem(0), SeqItem(MaxObsLen), ArrItem(0, 1), ArrItem(1, 1), ArrItem(MaxObsLen, 1),
   Arr2Item(0, 2, 0), Arr2Item(1, 1, 1), Arr2Item(MaxObsLen, 1, 1), Arr2Item(1, 2, 1),
   NumItem(1), BoolItem(TRUE), DictItem}
\* Elements past index 3 are never read; replacing index 4 shows they are ignored.
Corrupt(T) ==
  UNION {{SubSeq(t, 1, k) : k \in 0..(Len(t) - 1)} \cup
         {[t EXCEPT ![i] = x] : i \in 1..(IF Len(t) < 4 THEN Len(t) ELSE 4), x \in Alphabet} : t \in T}

\* env.reset(seed=...) return values: (obs, info)
ConformReset(d) == {<<ConformObs(d.oshape), DictItem>>}
ResetTuples(d) == IF d.conform THEN ConformReset(d) ELSE Corrupt(ConformReset(d))
\* env.step(action) return values: (obs, reward, terminated, truncated, info)
ConformStep(d) ==
  {<<ConformObs(d.oshape), NumItem(r), BoolItem(t), BoolItem(u), DictItem>> :
     r \in 0..1, t \in BOOLEAN, u \in BOOLEAN}
StepTuples(d) ==
  IF d.conform THEN ConformStep(d)
  ELSE Corrupt({<<ConformObs(d.oshape), NumItem(0), BoolItem(FALSE), BoolItem(FALSE), DictItem>>})

\* ---- GymEnv::new ----
Err == [kind |-> "err", as |-> 0, os |-> <<>>]
Panic == [kind |-> "panic", as |-> 0, os |-> <<>>]

NewResultShapeFirst(d) ==
  IF ~d.reg THEN Err
  ELSE IF ~d.aNone /\ Len(d.ashape) > 0 /\ ~d.oNone
       THEN [kind |-> "ok", as |-> d.ashape[1], os |-> d.oshape]
  ELSE IF d.nKind = "bad" THEN Err
  ELSE IF d.nKind = "missing" /\ d.aNone THEN Err
  ELSE IF d.nKind = "missing" /\ Len(d.ashape) = 0 THEN Panic
  ELSE IF d.oNone THEN Err
  ELSE [kind |-> "ok", as |-> IF d.nKind = "int" THEN d.nVal ELSE d.ashape[1], os |-> d.oshape]

NewResultFallback(d) ==
  IF ~d.reg THEN Err
  ELSE IF d.nKind # "int" /\ d.aNone THEN Err
  ELSE IF d.nKind # "int" /\ Len(d.ashape) = 0 THEN Panic
  ELSE IF d.oNone THEN Err
  ELSE [kind |-> "ok", as |-> IF d.nKind = "int" THEN d.nVal ELSE d.ashape[1], os |-> d.oshape]

NewResultObsFromAction(d) ==
  IF ~d.reg THEN Err
  ELSE IF d.nKind = "bad" THEN Err
  ELSE IF d.nKind = "missing" /\ d.aNone THEN Err
  ELSE IF d.nKind = "missing" /\ Len(d.ashape) = 0 THEN Panic
  ELSE IF d.oNone THEN Err
  ELSE [kind |-> "ok", as |-> IF d.nKind = "int" THEN d.nVal ELSE d.ashape[1], os |-> d.ashape]

\* gymnasium.make (43-45); action_space.n if getattr succeeds, its extract
\* error propagating (47-48); otherwise shape extracted and indexed at 0, an
\* empty Vec panicking (50-51); observation_space.shape extracted (53-54).
NewResult(d) ==
  IF ~d.reg THEN Err
  ELSE IF d.nKind = "bad" THEN Err
  ELSE IF d.nKind = "missing" /\ d.aNone THEN Err
  ELSE IF d.nKind = "missing" /\ Len(d.ashape) = 0 THEN Panic
  ELSE IF d.oNone THEN Err
  ELSE [kind |-> "ok", as |-> IF d.nKind = "int" THEN d.nVal ELSE d.ashape[1], os |-> d.oshape]

\* ---- result of one reset / step call ----
\* sent: the value the Python-side argument (built from action.clone()) holds
\* once env.step returns; the environment may have modified that object.
NoOp == [op |-> "none", input |-> 0, raised |-> FALSE, items |-> <<>>, ok |-> FALSE,
         obsLen |-> 0, reward |-> 0, done |-> FALSE, action |-> 0, sent |-> 0]

\* GymEnv::reset: get_item(0) of the returned tuple, extracted as Vec<f32>
ResetResult(seed, raised, items) ==
  IF raised \/ Len(items) < 1 \/ ~ExtractFloats(items[1])
  THEN [NoOp EXCEPT !.op = "reset", !.input = seed, !.raised = raised, !.items = items]
  ELSE [NoOp EXCEPT !.op = "reset", !.input = seed, !.raised = raised, !.items = items,
                    !.ok = TRUE, !.obsLen = items[1].len]

StepResultFromPyCopy(a, raised, items, sent) ==
  IF raised \/ Len(items) < 1 \/ ~ExtractFloats(items[1])
     \/ Len(items) < 2 \/ ~ExtractF64(items[2])
     \/ Len(items) < 3 \/ ~ExtractBool(items[3])
  THEN [NoOp EXCEPT !.op = "step", !.input = a, !.raised = raised, !.items = items, !.sent = sent]
  ELSE [op |-> "step", input |-> a, raised |-> raised, items |-> items, ok |-> TRUE,
        obsLen |-> items[1].len, reward |-> F64Val(items[2]), done |-> items[3].b,
        action |-> sent, sent |-> sent]

StepResultSwapped(a, raised, items, sent) ==
  IF raised \/ Len(items) < 1 \/ ~ExtractFloats(items[1])
     \/ Len(items) < 2 \/ ~ExtractF64(items[2])
     \/ Len(items) < 3 \/ ~ExtractBool(items[3])
  THEN [NoOp EXCEPT !.op = "step", !.input = a, !.raised = raised, !.items = items, !.sent = sent]
  ELSE [op |-> "step", input |-> a, raised |-> raised, items |-> items, ok |-> TRUE,
        obsLen |-> items[1].len, reward |-> F64Val(items[3]), done |-> items[3].b,
        action |-> a, sent |-> sent]

\* GymEnv::step: items 0, 1, 2 extracted as Vec<f32>, f64, bool; the Step
\* carries the caller's own action, not the copy handed to Python.
StepResult(a, raised, items, sent) ==
  IF raised \/ Len(items) < 1 \/ ~ExtractFloats(items[1])
     \/ Len(items) < 2 \/ ~ExtractF64(items[2])
     \/ Len(items) < 3 \/ ~ExtractBool(items[3])
  THEN [NoOp EXCEPT !.op = "step", !.input = a, !.raised = raised, !.items = items, !.sent = sent]
  ELSE [op |-> "step", input |-> a, raised |-> raised, items |-> items, ok |-> TRUE,
        obsLen |-> items[1].len, reward |-> F64Val(items[2]), done |-> items[3].b,
        action |-> a, sent |-> sent]

VARIABLES created, newKind, newD, env, actSpace, obsSpace, lastOp, everReset, errSeen
\* several threads, each owning one GymEnv; gil is the process-wide interpreter lock
VARIABLES pc, op, gil, steps, tCreated, tEnv, tAct, tObs, cErr
seqVars == <<created, newKind, newD, env, actSpace, obsSpace, lastOp, everReset, errSeen>>
concVars == <<pc, op, gil, steps, tCreated, tEnv, tAct, tObs, cErr>>
vars == <<seqVars, concVars>>

Threads == {1, 2}
CallLen == 2
NoThread == 0

ConcInit ==
  /\ pc = [t \in Threads |-> "idle"]
  /\ op = [t \in Threads |-> "none"]
  /\ gil = NoThread
  /\ steps = [t \in Threads |-> 0]
  /\ tCreated = [t \in Threads |-> FALSE]
  /\ tEnv = [t \in Threads |-> Unregistered]
  /\ tAct = [t \in Threads |-> 0]
  /\ tObs = [t \in Threads |-> <<>>]
  /\ cErr = FALSE

Init ==
  /\ created = FALSE
  /\ newKind = "none"
  /\ newD = Unregistered
  /\ env = Unregistered
  /\ actSpace = 0
  /\ obsSpace = <<>>
  /\ lastOp = NoOp
  /\ everReset = FALSE
  /\ errSeen = FALSE
  /\ ConcInit

New(d) ==
  LET r == NewResult(d) IN
  /\ ~created /\ newKind # "panic"
  /\ newKind' = r.kind
  /\ newD' = d
  /\ IF r.kind = "ok"
     THEN /\ created' = TRUE /\ env' = d /\ actSpace' = r.as /\ obsSpace' = r.os
     ELSE UNCHANGED <<created, env, actSpace, obsSpace>>
  /\ UNCHANGED <<lastOp, everReset, errSeen, concVars>>

ResetRequery(seed) ==
  /\ created
  /\ \E raised \in BOOLEAN :
       \E items \in (IF raised THEN {<<>>} ELSE ResetTuples(env)) :
         LET r == ResetResult(seed, raised, items) IN
         /\ lastOp' = r
         /\ everReset' = (everReset \/ r.ok)
         /\ errSeen' = (errSeen \/ ~r.ok)
         /\ obsSpace' = IF r.ok THEN <<r.obsLen>> ELSE obsSpace
  /\ UNCHANGED <<created, newKind, newD, env, actSpace, concVars>>

Reset(seed) ==
  /\ created
  /\ \E raised \in BOOLEAN :
       \E items \in (IF raised THEN {<<>>} ELSE ResetTuples(env)) :
         LET r == ResetResult(seed, raised, items) IN
         /\ lastOp' = r
         /\ everReset' = (everReset \/ r.ok)
         /\ errSeen' = (errSeen \/ ~r.ok)
  /\ UNCHANGED <<created, newKind, newD, env, actSpace, obsSpace, concVars>>

StepAfterReset(a) ==
  /\ created /\ everReset
  /\ \E raised \in BOOLEAN :
       \E items \in (IF raised THEN {<<>>} ELSE StepTuples(env)), sent \in Actions :
         LET r == StepResult(a, raised, items, sent) IN
         /\ lastOp' = r
         /\ errSeen' = (errSeen \/ ~r.ok)
  /\ UNCHANGED <<created, newKind, newD, env, actSpace, obsSpace, everReset, concVars>>

Step(a) ==
  /\ created
  /\ \E raised \in BOOLEAN :
       \E items \in (IF raised THEN {<<>>} ELSE StepTuples(env)), sent \in Actions :
         LET r == StepResult(a, raised, items, sent) IN
         /\ lastOp' = r
         /\ errSeen' = (errSeen \/ ~r.ok)
  /\ UNCHANGED <<created, newKind, newD, env, actSpace, obsSpace, everReset, concVars>>

\* Construction alone, over every environment descriptor.
NextNew == \E d \in Descriptors : New(d)
SpecNew == Init /\ [][NextNew]_vars

\* A GymEnv's life: construction (retried after failures) over environments
\* exposing a discrete n, then any reset / step calls.
OpDescriptors == {Unregistered} \cup {d \in Registered : d.nKind = "int" /\ d.ashape = <<>>}
Next ==
  \/ \E d \in OpDescriptors : New(d)
  \/ \E s \in Seeds : Reset(s)
  \/ \E a \in Actions : Step(a)

Spec == Init /\ [][Next]_vars

(***************************************************************************)
(* Properties of a single GymEnv                                           *)
(***************************************************************************)

\* C1: once new has succeeded, no reset or step (successful or failing)
\* changes the cached action_space / observation_space values.
C1_CachedSpaces == [][created => UNCHANGED <<actSpace, obsSpace>>]_vars
C1_Witness == created /\ everReset /\ errSeen /\ lastOp.op = "step"

\* C2: the action-space size is action_space.n when that attribute exists and
\* otherwise the first element of action_space.shape.
C2_ActionSpace ==
  created => actSpace = IF env.nKind = "int" THEN env.nVal ELSE env.ashape[1]
C2_Witness == created /\ env.nKind = "missing" /\ actSpace = MaxDim

\* C3: new never panics; an unregistered name or a malformed space descriptor
\* (no n and an empty shape included) yields an error.
C3_NewNeverPanics == newKind \in {"none", "ok", "err"}

\* C4 (as stated): every successful reset / step returns a tensor whose element
\* count is the product of observation_space().
C4_ShapeLaw ==
  (lastOp.op \in {"reset", "step"} /\ lastOp.ok) => lastOp.obsLen = Product(obsSpace)
\* C4 (amended): the element count is the length of the float sequence the
\* environment returned at index 0 (not checked against observation_space());
\* it equals the product of observation_space() when the environment's
\* observations conform to its declared observation space.
C4_ShapeLawConforming ==
  (lastOp.op \in {"reset", "step"} /\ lastOp.ok) =>
    /\ lastOp.obsLen = lastOp.items[1].len
    /\ (env.conform => lastOp.obsLen = Product(obsSpace))
C4_Witness == lastOp.op = "step" /\ lastOp.ok /\ env.conform /\ everReset

\* C5: a successful step(a) returns a Step whose action field is a, whatever the
\* environment did to the copy of the action it was given.
C5_ActionRoundTrip == (lastOp.op = "step" /\ lastOp.ok) => lastOp.action = lastOp.input
C5_Witness == lastOp.op = "step" /\ lastOp.ok /\ lastOp.input = 1 /\ lastOp.sent # 1

C9_AnyOrder ==
  /\ created => /\ \A s \in Seeds : ENABLED Reset(s)
                /\ \A a \in Actions : ENABLED Step(a)
  \* a raising external call is returned as an error, never retried into a result
  /\ (lastOp.op \in {"reset", "step"} /\ lastOp.raised) => ~lastOp.ok
C9_Witness == lastOp.op = "step" /\ lastOp.ok /\ ~everReset /\ errSeen

\* C10: if action_space.n exists but does not extract as usize, new fails; it
\* does not fall back to action_space.shape[0].
C10_NoFallbackOnBadN ==
  (newKind # "none" /\ newD.reg /\ newD.nKind = "bad") => newKind = "err"
C10_Witness == newD.reg /\ newD.nKind = "bad" /\ Len(newD.ashape) > 0 /\ newKind = "err"

(***************************************************************************)
(* Several threads, each owning one GymEnv.  Every external call runs in   *)
(* Python::with_gil; the call itself is CallLen steps, and between steps  *)
(* the GIL may be dropped mid-call: by the eval loop when another thread   *)
(* asks for it, or by the called code itself (time.sleep, blocking I/O,    *)
(* C extensions using Py_BEGIN_ALLOW_THREADS), waiter or not; the call     *)
(* re-takes the GIL before going on.                                       *)
(***************************************************************************)
ConcDescriptors ==
  {d \in Registered : d.conform /\ d.ashape = <<1>> /\ d.oshape \in {<<>>, <<MaxDim>>}}
  \cup {Unregistered}
Ops == {"new", "reset", "step"}

\* A thread calls GymEnv::new, reset or step.
Begin(t, o) ==
  /\ pc[t] = "idle"
  /\ IF o = "new" THEN ~tCreated[t] ELSE tCreated[t]
  /\ pc' = [pc EXCEPT ![t] = "acq"]
  /\ op' = [op EXCEPT ![t] = o]
  /\ UNCHANGED <<gil, steps, tCreated, tEnv, tAct, tObs, cErr, seqVars>>

\* Python::with_gil acquires the GIL and the external call starts.
Acquire(t) ==
  /\ pc[t] = "acq" /\ gil = NoThread
  /\ gil' = t
  /\ pc' = [pc EXCEPT ![t] = "call"]
  /\ steps' = [steps EXCEPT ![t] = CallLen]
  /\ UNCHANGED <<op, tCreated, tEnv, tAct, tObs, cErr, seqVars>>

\* The interpreter runs one step of the external call.
Exec(t) ==
  /\ pc[t] = "call" /\ gil = t /\ steps[t] > 0
  /\ steps' = [steps EXCEPT ![t] = @ - 1]
  /\ UNCHANGED <<pc, op, gil, tCreated, tEnv, tAct, tObs, cErr, seqVars>>

\* The GIL is dropped mid-call (switch request or a GIL-releasing callee).
Yield(t) ==
  /\ pc[t] = "call" /\ gil = t /\ steps[t] > 0
  /\ gil' = NoThread
  /\ pc' = [pc EXCEPT ![t] = "reacq"]
  /\ UNCHANGED <<op, steps, tCreated, tEnv, tAct, tObs, cErr, seqVars>>

\* The interrupted call takes the GIL back and goes on.
Reacquire(t) ==
  /\ pc[t] = "reacq" /\ gil = NoThread
  /\ gil' = t
  /\ pc' = [pc EXCEPT ![t] = "call"]
  /\ UNCHANGED <<op, steps, tCreated, tEnv, tAct, tObs, cErr, seqVars>>

FinishShared(t) ==
  /\ pc[t] = "call" /\ gil = t /\ steps[t] = 0
  /\ IF op[t] = "new"
     THEN \E d \in ConcDescriptors :
            LET r == NewResult(d) IN
            IF r.kind = "ok"
            THEN /\ tCreated' = [tCreated EXCEPT ![t] = TRUE]
                 /\ tEnv' = [tEnv EXCEPT ![t] = d]
                 /\ tAct' = [u \in Threads |-> r.as]
                 /\ tObs' = [u \in Threads |-> r.os]
                 /\ UNCHANGED cErr
            ELSE /\ cErr' = TRUE
                 /\ UNCHANGED <<tCreated, tEnv, tAct, tObs>>
     ELSE /\ \E ok \in BOOLEAN : cErr' = (cErr \/ ~ok)
          /\ UNCHANGED <<tCreated, tEnv, tAct, tObs>>
  /\ gil' = NoThread
  /\ pc' = [pc EXCEPT ![t] = "idle"]
  /\ op' = [op EXCEPT ![t] = "none"]
  /\ UNCHANGED <<steps, seqVars>>

FinishLeakOnError(t) ==
  /\ pc[t] = "call" /\ gil = t /\ steps[t] = 0
  /\ IF op[t] = "new"
     THEN \E d \in ConcDescriptors :
            LET r == NewResult(d) IN
            IF r.kind = "ok"
            THEN /\ tCreated' = [tCreated EXCEPT ![t] = TRUE]
                 /\ tEnv' = [tEnv EXCEPT ![t] = d]
                 /\ tAct' = [tAct EXCEPT ![t] = r.as]
                 /\ tObs' = [tObs EXCEPT ![t] = r.os]
                 /\ UNCHANGED cErr /\ gil' = NoThread
            ELSE /\ cErr' = TRUE
                 /\ UNCHANGED <<tCreated, tEnv, tAct, tObs, gil>>
     ELSE /\ \E ok \in BOOLEAN : cErr' = (cErr \/ ~ok) /\ gil' = IF ok THEN NoThread ELSE gil
          /\ UNCHANGED <<tCreated, tEnv, tAct, tObs>>
  /\ pc' = [pc EXCEPT ![t] = "idle"]
  /\ op' = [op EXCEPT ![t] = "none"]
  /\ UNCHANGED <<steps, seqVars>>

\* The external call returns or raises; the with_gil scope ends and its guard
\* releases the GIL on both paths.  new stores the extracted spaces in its own
\* GymEnv; reset and step write no GymEnv field.
Finish(t) ==
  /\ pc[t] = "call" /\ gil = t /\ steps[t] = 0
  /\ IF op[t] = "new"
     THEN \E d \in ConcDescriptors :
            LET r == NewResult(d) IN
            IF r.kind = "ok"
            THEN /\ tCreated' = [tCreated EXCEPT ![t] = TRUE]
                 /\ tEnv' = [tEnv EXCEPT ![t] = d]
                 /\ tAct' = [tAct EXCEPT ![t] = r.as]
                 /\ tObs' = [tObs EXCEPT ![t] = r.os]
                 /\ UNCHANGED cErr
            ELSE /\ cErr' = TRUE
                 /\ UNCHANGED <<tCreated, tEnv, tAct, tObs>>
     ELSE /\ \E ok \in BOOLEAN : cErr' = (cErr \/ ~ok)
          /\ UNCHANGED <<tCreated, tEnv, tAct, tObs>>
  /\ gil' = NoThread
  /\ pc' = [pc EXCEPT ![t] = "idle"]
  /\ op' = [op EXCEPT ![t] = "none"]
  /\ UNCHANGED <<steps, seqVars>>

ConcNext ==
  \/ \E t \in Threads, o \in Ops : Begin(t, o)
  \/ \E t \in Threads : Acquire(t)
  \/ \E t \in Threads : Exec(t)
  \/ \E t \in Threads : Yield(t)
  \/ \E t \in Threads : Reacquire(t)
  \/ \E t \in Threads : Finish(t)

ConcSpec == Init /\ [][ConcNext]_vars

InCall(t) == pc[t] \in {"call", "reacq"}

\* C7 (as stated): at most one external call is in flight at any instant.
C7_OneCallInFlight == Cardinality({t \in Threads : InCall(t)}) <= 1
\* C7 (amended): only the GIL holder executes Python, and the GIL is held only
\* by a thread inside an external call, so every exit path (error included)
\* has released it; the interpreter may still hand the GIL over mid-call.
C7_GilDiscipline ==
  /\ \A t \in Threads : pc[t] = "call" => gil = t
  /\ gil # NoThread => pc[gil] = "call"
C7_Witness == cErr /\ \A t \in Threads : InCall(t)

\* C8: under every interleaving of two threads on two GymEnvs, each GymEnv's
\* cached spaces stay the values its own new computed.
C8_IsolatedCaches ==
  /\ [][\A t \in Threads : tCreated[t] => (tAct'[t] = tAct[t] /\ tObs'[t] = tObs[t])]_vars
  /\ [](\A t \in Threads : tCreated[t] =>
          (tAct[t] = NewResult(tEnv[t]).as /\ tObs[t] = NewResult(tEnv[t]).os))
C8_Witness ==
  /\ \A t \in Threads : tCreated[t] /\ InCall(t) /\ op[t] \in {"reset", "step"}
  /\ tAct[1] # tAct[2]

====
